---- MODULE Spec2Model ----
(***************************************************************************)
(* Model of Rating_ToolV1/rating_tool.py: the batch star-rating tool.      *)
(* Strings are sequences of one-character strings, so that lower(),        *)
(* strip(), endswith(), splitext(), Path.stem, glob patterns and int()     *)
(* are computed character by character, as the Python code computes them.  *)
(***************************************************************************)
EXTENDS Integers, Sequences, FiniteSets, TLC

VARIABLES
    \* ---- environment of one run
    toolState,          \* what launching "exiftool" does: "ok", "missing", "noexec"
    caseSensitive,      \* TRUE: Path.glob matches case-sensitively (POSIX); FALSE: Windows
    cwd,                \* the process working directory
    fs,                 \* directory -> its entries, in directory-enumeration order
    \* ---- program state
    pc,                 \* position in the program
    jpeg_folder, jpeg_files, jpeg_basenames,
    raw_folder, matching_raw_files,
    line,               \* the console line input() returned last (dropped once the
                        \* confirmation is evaluated: nothing reads it afterwards);
                        \* a typed folder path is a text of one token
    rating, confirm,
    files,              \* the argument of set_rating_with_exiftool
    idx,                \* position of the for loop of set_rating_with_exiftool
    success_files, failed_files,
    logpos,             \* number of write() calls done inside write_log
    \* ---- observable effects
    log,                \* content of rating_log.txt in cwd (NoFile when absent)
    prompts,            \* the prompts issued by input(), in order
    cmds,               \* the rating commands run: [file, rating, result]
    written,            \* the paths whose content the run changed
    visited,            \* the orchestrator states entered, in order
    outcome             \* the last closing message printed by main() or by a
                        \* handler of the top level ("running": none so far)

vars == << toolState, caseSensitive, cwd, fs, pc, jpeg_folder, jpeg_files,
           jpeg_basenames, raw_folder, matching_raw_files, line, rating, confirm,
           files, idx, success_files, failed_files, logpos, log, prompts, cmds,
           written, visited, outcome >>

envVars == << toolState, caseSensitive, cwd, fs >>

----------------------------------------------------------------------------
(* Bounds of the model *)

\* entries per directory
MaxFiles == 2
\* files handed to set_rating_with_exiftool when it is called directly
MaxApplyFiles == 3
\* characters typed at the rating prompt
MaxRatingLen == 2
\* characters typed at the confirmation prompt
MaxConfirmLen == 2

----------------------------------------------------------------------------
(* Strings *)

\* str.lower(), one character
LowerChar(c) ==
    CASE c = "A" -> "a"  [] c = "B" -> "b"  [] c = "E" -> "e"  [] c = "G" -> "g"
      [] c = "J" -> "j"  [] c = "N" -> "n"  [] c = "P" -> "p"  [] c = "R" -> "r"
      [] c = "W" -> "w"  [] c = "Y" -> "y"  [] OTHER -> c

\* str.lower()
Lower(s) == [i \in 1..Len(s) |-> LowerChar(s[i])]

IsSpace(c) == c = " "

RECURSIVE LStrip(_)
LStrip(s) == IF s # << >> /\ IsSpace(Head(s)) THEN LStrip(Tail(s)) ELSE s

RECURSIVE RStrip(_)
RStrip(s) ==
    IF s # << >> /\ IsSpace(s[Len(s)]) THEN RStrip(SubSeq(s, 1, Len(s) - 1)) ELSE s

\* str.strip()
Strip(s) == RStrip(LStrip(s))

\* str.endswith(suffix)
EndsWith(s, suffix) ==
    /\ Len(s) >= Len(suffix)
    /\ SubSeq(s, Len(s) - Len(suffix) + 1, Len(s)) = suffix

\* str.rfind("."), 1-based; 0 when there is no dot
RFindDot(s) ==
    LET dots == {i \in 1..Len(s) : s[i] = "."}
    IN  IF dots = {} THEN 0 ELSE CHOOSE i \in dots : \A j \in dots : j <= i

\* os.path.splitext(name)[0]: the name up to its last dot, unless only dots precede it
splitext_root(name) ==
    LET d == RFindDot(name)
    IN  IF d > 0 /\ \E k \in 1..(d - 1) : name[k] # "."
        THEN SubSeq(name, 1, d - 1)
        ELSE name

\* pathlib PurePath.stem: the name up to its last dot, unless the dot is first or last
PathStem(name) ==
    LET d == RFindDot(name)
    IN  IF 1 < d /\ d < Len(name) THEN SubSeq(name, 1, d - 1) ELSE name

----------------------------------------------------------------------------
(* The file system *)

NoDir == "nodir"
Dirs == {"d1", "d2", "d3"}
\* what the user may type at a folder prompt, after strip()
FolderInputs == Dirs \cup {NoDir}

\* a slip: every typed path passes for a directory
isdir_Any(path) == TRUE

\* os.path.isdir
isdir(path) == path \in Dirs

\* os.listdir / iterdir order of a directory; listing a non-directory raises
ListDir(folder) == IF folder \in Dirs THEN fs[folder] ELSE << >>

\* os.path.join(folder, name) and Path(folder) / name
PathOf(folder, name) == [dir |-> folder, name |-> name]

\* all sequences over S of length at most n
RECURSIVE SeqsUpTo(_, _)
SeqsUpTo(S, n) ==
    IF n = 0 THEN { << >> }
    ELSE LET shorter == SeqsUpTo(S, n - 1)
         IN  shorter \cup { Append(s, x) : s \in {t \in shorter : Len(t) = n - 1}, x \in S }

NoDup(s) == \A i, j \in 1..Len(s) : i # j => s[i] # s[j]

\* a directory holds no two entries of one name; on a case-insensitive platform
\* no two names equal up to case
ValidListing(l, sensitive) ==
    \A i, j \in 1..Len(l) : i # j =>
        /\ l[i].name # l[j].name
        /\ (~sensitive => Lower(l[i].name) # Lower(l[j].name))

File(name) == [name |-> name, isfile |-> TRUE]
SubDir(name) == [name |-> name, isfile |-> FALSE]

----------------------------------------------------------------------------
(* File names used as inputs *)

n_a_jpg == << "a", ".", "j", "p", "g" >>
n_a_jpeg == << "a", ".", "j", "p", "e", "g" >>
n_A_JPG == << "A", ".", "J", "P", "G" >>
n_A_jpeg == << "A", ".", "j", "p", "e", "g" >>
n_b_Jpg == << "b", ".", "J", "p", "g" >>
n_b_jpg == << "b", ".", "j", "p", "g" >>
n_a_txt == << "a", ".", "t", "x", "t" >>
n_a_arw == << "a", ".", "a", "r", "w" >>
n_a_ARW == << "a", ".", "A", "R", "W" >>
n_a_RAW == << "a", ".", "R", "A", "W" >>
n_A_raw == << "A", ".", "r", "a", "w" >>
n_a_Arw == << "a", ".", "A", "r", "w" >>
n_b_rAW == << "b", ".", "r", "A", "W" >>
n_b_arw == << "b", ".", "a", "r", "w" >>

----------------------------------------------------------------------------
(* get_file_basenames *)

jpeg_extensions ==
    << << ".", "j", "p", "g" >>, << ".", "j", "p", "e", "g" >>,
       << ".", "J", "P", "G" >>, << ".", "J", "P", "E", "G" >> >>

\* line 25: any(file.lower().endswith(ext.lower()) for ext in extensions)
HasExtension(file, extensions) ==
    \E k \in 1..Len(extensions) : EndsWith(Lower(file), Lower(extensions[k]))

\* lines 21-30: the entries kept by the loop, in listing order
KeptEntries(folder_path, extensions) ==
    SelectSeq(ListDir(folder_path),
              LAMBDA e : e.isfile /\ (extensions # << >> => HasExtension(e.name, extensions)))

\* get_file_basenames(folder_path, extensions) -> (files, basenames); a folder that
\* cannot be listed gives ([], [])
get_file_basenames(folder_path, extensions) ==
    LET kept == KeptEntries(folder_path, extensions)
    IN  [files     |-> [i \in 1..Len(kept) |-> kept[i].name],
         basenames |-> [i \in 1..Len(kept) |-> splitext_root(kept[i].name)]]

----------------------------------------------------------------------------
(* find_matching_raw_files *)

raw_extensions ==
    << << ".", "a", "r", "w" >>, << ".", "r", "a", "w" >>,
       << ".", "A", "R", "W" >>, << ".", "R", "A", "W" >> >>

\* whether the pattern "*" + ext matches a name: Path.glob compares
\* case-sensitively on POSIX and case-insensitively on Windows
GlobMatch(name, ext) ==
    IF caseSensitive THEN EndsWith(name, ext) ELSE EndsWith(Lower(name), Lower(ext))

\* list(Path(folder).glob("*" + ext)), in directory-enumeration order
Glob(folder, ext) ==
    LET hits == SelectSeq(ListDir(folder), LAMBDA e : GlobMatch(e.name, ext))
    IN  [i \in 1..Len(hits) |-> PathOf(folder, hits[i].name)]

\* lines 42-44: the glob results of the four patterns, concatenated in pattern order
RECURSIVE AllRawFilesFrom(_, _)
AllRawFilesFrom(folder, k) ==
    IF k > Len(raw_extensions) THEN << >>
    ELSE Glob(folder, raw_extensions[k]) \o AllRawFilesFrom(folder, k + 1)

all_raw_files(folder) == AllRawFilesFrom(folder, 1)

\* line 48
StemMatches(raw_file, basename) == Lower(PathStem(raw_file.name)) = Lower(basename)

\* a slip: the inner loop without its break keeps every candidate of the basename
MatchesOf_NoBreak(candidates, basename) ==
    SelectSeq(candidates, LAMBDA c : Lower(PathStem(c.name)) = Lower(basename))

\* lines 47-50: the inner loop for one basename: the first candidate, then break
MatchesOf(candidates, basename) ==
    LET hit == {i \in 1..Len(candidates) : StemMatches(candidates[i], basename)}
    IN  IF hit = {} THEN << >>
        ELSE << candidates[CHOOSE i \in hit : \A j \in hit : i <= j] >>

\* lines 46-50: the outer loop over the basenames
RECURSIVE MatchLoop(_, _)
MatchLoop(candidates, basenames) ==
    IF basenames = << >> THEN << >>
    ELSE MatchesOf(candidates, Head(basenames)) \o MatchLoop(candidates, Tail(basenames))

find_matching_raw_files(folder, basenames) ==
    MatchLoop(all_raw_files(folder), basenames)

----------------------------------------------------------------------------
(* The rating typed at the prompt *)

IsDigit(c) == c \in {"0", "1", "2", "3", "4", "5", "6", "7", "8", "9"}

DigitVal(c) ==
    CASE c = "0" -> 0 [] c = "1" -> 1 [] c = "2" -> 2 [] c = "3" -> 3 [] c = "4" -> 4
      [] c = "5" -> 5 [] c = "6" -> 6 [] c = "7" -> 7 [] c = "8" -> 8 [] c = "9" -> 9

\* the digits part of an int() literal: digits, single underscores between them
IsDigits(t) ==
    /\ t # << >>
    /\ IsDigit(t[1]) /\ IsDigit(t[Len(t)])
    /\ \A i \in 1..Len(t) : IsDigit(t[i]) \/ t[i] = "_"
    /\ \A i \in 1..(Len(t) - 1) : ~(t[i] = "_" /\ t[i + 1] = "_")

RECURSIVE DigitsValue(_, _)
DigitsValue(t, acc) ==
    IF t = << >> THEN acc
    ELSE IF Head(t) = "_" THEN DigitsValue(Tail(t), acc)
    ELSE DigitsValue(Tail(t), 10 * acc + DigitVal(Head(t)))

\* int(s): surrounding whitespace, an optional sign, the digits; ok = FALSE is ValueError
ParseInt(s) ==
    LET t      == Strip(s)
        signed == t # << >> /\ Head(t) \in {"+", "-"}
        body   == IF signed THEN Tail(t) ELSE t
    IN  IF IsDigits(body)
        THEN [ok |-> TRUE,
              value |-> IF signed /\ Head(t) = "-" THEN -DigitsValue(body, 0)
                        ELSE DigitsValue(body, 0)]
        ELSE [ok |-> FALSE, value |-> 0]

DefaultRating == 4

\* a slip: the range check without its upper bound
InRange_NoUpper(r) == ~(r < 1)

\* line 152
InRange(r) == ~(r < 1 \/ r > 5)

\* lines 150-157: rating = int(input(...) or "4"), the range check, the ValueError handler
CoerceRating(typed) ==
    LET text   == IF typed = << >> THEN << "4" >> ELSE typed
        parsed == ParseInt(text)
    IN  IF ~parsed.ok THEN DefaultRating
        ELSE IF InRange(parsed.value) THEN parsed.value
        ELSE DefaultRating

----------------------------------------------------------------------------
(* check_exiftool and the top-level handlers *)

\* check_exiftool(): subprocess.run(['exiftool', '-ver']) inside
\* try / except FileNotFoundError. The exit status is not looked at. A launch
\* failure that is no FileNotFoundError (PermissionError) leaves the function.
check_exiftool ==
    CASE toolState = "ok"      -> "True"
      [] toolState = "missing" -> "False"
      [] toolState = "noexec"  -> "PermissionError"

Unset == "unset"
NoFile == "nofile"
LogName == << "r", "a", "t", "i", "n", "g", "_", "l", "o", "g", ".", "t", "x", "t" >>

\* a slip: the log written next to the previews
LogPath_InRejectFolder == PathOf(jpeg_folder, LogName)

\* open("rating_log.txt", "w"): the name is relative, so it is resolved in cwd
LogPath == PathOf(cwd, LogName)

\* the orchestrator states, in the order main() goes through them
States ==
    << "ToolCheck", "SourceFolderInput", "SourceScan", "TargetFolderInput",
       "MatchScan", "RatingInput", "Confirm", "Apply" >>

\* the positions inside main(), that is inside the try block of lines 178-179
InMain ==
    pc \in {"ToolCheck", "SourceFolderInput", "SourceScan", "TargetFolderInput",
            "SourceFolderCheck", "TargetFolderCheck",
            "MatchScan", "RatingInput", "RatingParse", "Confirm", "ConfirmCheck",
            "Apply", "ApplyRecord", "Report", "WriteLog"}

\* main() goes on to its next state
Enter(state) ==
    /\ pc' = state
    /\ visited' = Append(visited, state)
    /\ UNCHANGED outcome

\* main() has printed a closing message and is about to return to line 185
Terminate(message) ==
    /\ pc' = "ExitPrompt"
    /\ outcome' = message
    /\ UNCHANGED visited

\* the closing messages of main()
MainMessages ==
    {"guidance", "badJpegFolder", "noJpeg", "badRawFolder", "noMatch", "cancelled",
     "completed"}

\* an exception that is no KeyboardInterrupt leaves main() and reaches line 182
Raise ==
    /\ pc' = "ErrorHandler"
    /\ UNCHANGED << visited, outcome >>

scanVars == << jpeg_folder, jpeg_files, jpeg_basenames, raw_folder, matching_raw_files >>
applyVars == << files, idx, success_files, failed_files >>
effectVars == << log, logpos, cmds, written >>

----------------------------------------------------------------------------
(* main(): lines 103-147 *)

\* lines 104-107
ToolCheck ==
    /\ pc = "ToolCheck"
    /\ CASE check_exiftool = "True"  -> Enter("SourceFolderInput")
         [] check_exiftool = "False" -> Terminate("guidance")
         [] OTHER                    -> Raise
    /\ UNCHANGED << envVars, scanVars, line, rating, confirm, applyVars, effectVars,
                    prompts >>

\* input(): the prompt is printed and one line typed by the user is returned
ReadLine(prompt, inputs) ==
    /\ \E typed \in inputs : line' = typed
    /\ prompts' = Append(prompts, prompt)

\* the texts typed at a folder prompt
FolderTexts == { << typed >> : typed \in FolderInputs }

\* .strip() of a typed folder path: the path named by the text
FolderOf(text) == text[1]

\* line 110, input(...): the prompt is printed and the program waits for the line
SourceFolderInput ==
    /\ pc = "SourceFolderInput"
    /\ ReadLine("jpeg_folder", FolderTexts)
    /\ pc' = "SourceFolderCheck"
    /\ UNCHANGED << envVars, scanVars, rating, confirm, applyVars, effectVars, visited,
                    outcome >>

\* lines 110-113 after the read: jpeg_folder is assigned and checked
SourceFolderCheck ==
    /\ pc = "SourceFolderCheck"
    /\ jpeg_folder' = FolderOf(line)
    /\ IF isdir(jpeg_folder') THEN Enter("SourceScan") ELSE Terminate("badJpegFolder")
    /\ UNCHANGED << envVars, jpeg_files, jpeg_basenames, raw_folder, matching_raw_files,
                    line, rating, confirm, applyVars, effectVars, prompts >>

\* lines 116-121
SourceScan ==
    /\ pc = "SourceScan"
    /\ LET found == get_file_basenames(jpeg_folder, jpeg_extensions)
       IN  /\ jpeg_files' = found.files
           /\ jpeg_basenames' = found.basenames
           /\ IF found.files = << >> THEN Terminate("noJpeg")
              ELSE Enter("TargetFolderInput")
    /\ UNCHANGED << envVars, jpeg_folder, raw_folder, matching_raw_files, line, rating,
                    confirm, applyVars, effectVars, prompts >>

\* line 130, input(...): the prompt is printed and the program waits for the line
TargetFolderInput ==
    /\ pc = "TargetFolderInput"
    /\ ReadLine("raw_folder", FolderTexts)
    /\ pc' = "TargetFolderCheck"
    /\ UNCHANGED << envVars, scanVars, rating, confirm, applyVars, effectVars, visited,
                    outcome >>

\* lines 130-133 after the read: raw_folder is assigned and checked
TargetFolderCheck ==
    /\ pc = "TargetFolderCheck"
    /\ raw_folder' = FolderOf(line)
    /\ IF isdir(raw_folder') THEN Enter("MatchScan") ELSE Terminate("badRawFolder")
    /\ UNCHANGED << envVars, jpeg_folder, jpeg_files, jpeg_basenames, matching_raw_files,
                    line, rating, confirm, applyVars, effectVars, prompts >>

\* lines 137-141
MatchScan ==
    /\ pc = "MatchScan"
    /\ LET found == find_matching_raw_files(raw_folder, jpeg_basenames)
       IN  /\ matching_raw_files' = found
           /\ IF found = << >> THEN Terminate("noMatch") ELSE Enter("RatingInput")
    /\ UNCHANGED << envVars, jpeg_folder, jpeg_files, jpeg_basenames, raw_folder, line,
                    rating, confirm, applyVars, effectVars, prompts >>

----------------------------------------------------------------------------
(* main(): the rating and the confirmation, lines 150-163 *)

\* lines typed at the rating prompt in a whole run
MainRatingInputs ==
    { << >>, << "5" >>, << "a", "b", "c" >> }

\* line 151, input(...)
RatingInput ==
    /\ pc = "RatingInput"
    /\ ReadLine("rating", MainRatingInputs)
    /\ pc' = "RatingParse"
    /\ UNCHANGED << envVars, scanVars, rating, confirm, applyVars, effectVars, visited,
                    outcome >>

\* lines 150-157 after the read; neither branch leaves main()
RatingParse ==
    /\ pc = "RatingParse"
    /\ rating' = CoerceRating(line)
    /\ Enter("Confirm")
    /\ UNCHANGED << envVars, scanVars, line, confirm, applyVars, effectVars, prompts >>

\* lines typed at the confirmation prompt in a whole run
MainConfirmInputs ==
    { << >>, << "y" >>, << "n" >>, << " ", "Y" >> }

\* line 160, input(...)
Confirm ==
    /\ pc = "Confirm"
    /\ ReadLine("confirm", MainConfirmInputs)
    /\ pc' = "ConfirmCheck"
    /\ UNCHANGED << envVars, scanVars, rating, confirm, applyVars, effectVars, visited,
                    outcome >>

\* line 160: .strip().lower()
NormalizeConfirm(typed) == Lower(Strip(typed))

\* a slip: only an explicit "n" declines
Declined_OnlyN(answer) == answer = << "n" >>

\* line 161
Declined(answer) == answer # << "y" >>

\* lines 160-167: the answer is normalised and compared; on "y" main() calls
\* set_rating_with_exiftool(matching_raw_files, rating)
ConfirmCheck ==
    /\ pc = "ConfirmCheck"
    /\ confirm' = NormalizeConfirm(line)
    /\ line' = << >>
    /\ IF Declined(confirm')
       THEN Terminate("cancelled") /\ UNCHANGED applyVars
       ELSE /\ Enter("Apply")
            /\ files' = matching_raw_files
            /\ idx' = 1
            /\ success_files' = << >>
            /\ failed_files' = << >>
    /\ UNCHANGED << envVars, scanVars, rating, effectVars, prompts >>

----------------------------------------------------------------------------
(* set_rating_with_exiftool: lines 54-74 *)

\* what subprocess.run does for one file: it returns exit status 0, it returns
\* another exit status, or it raises an exception ("launcherror": the command
\* could not be launched, or it ran and its output could not be decoded as text)
Results == {"exit0", "nonzero", "launcherror"}

\* lines 61-62: the command is launched on files[idx] and the program waits for it
\* inside subprocess.run. Whether the file was rewritten is the tool's doing and
\* is not tied to the branch taken afterwards: a tool that ran may have rewritten
\* the file whatever its exit status, and also when subprocess.run raises after
\* the tool has exited (undecodable output with text=True)
ApplyLaunch ==
    /\ pc = "Apply"
    /\ idx <= Len(files)
    /\ \E result \in Results, changed \in BOOLEAN :
        /\ cmds' = Append(cmds, [file |-> files[idx], rating |-> rating, result |-> result])
        /\ written' = IF changed THEN written \cup {files[idx]} ELSE written
    /\ pc' = "ApplyRecord"
    /\ UNCHANGED << envVars, scanVars, line, rating, confirm, applyVars, log, logpos,
                    prompts, visited, outcome >>

\* a slip: without the except clause of lines 70-72 a launch error ends the loop
ApplyRecord_AbortOnError ==
    /\ pc = "ApplyRecord"
    /\ LET done == cmds[Len(cmds)]
       IN  /\ idx' = IF done.result = "launcherror" THEN Len(files) + 1 ELSE idx + 1
           /\ IF done.result = "exit0"
              THEN /\ success_files' = Append(success_files, files[idx])
                   /\ UNCHANGED failed_files
              ELSE /\ failed_files' = Append(failed_files, files[idx])
                   /\ UNCHANGED success_files
    /\ pc' = "Apply"
    /\ UNCHANGED << envVars, scanVars, line, rating, confirm, files, effectVars, prompts,
                    visited, outcome >>

\* lines 64-72: subprocess.run has returned or raised; the file is appended to
\* success_files on exit status 0 and to failed_files otherwise (another exit
\* status, or the exception caught at line 70), and the loop goes on
ApplyRecord ==
    /\ pc = "ApplyRecord"
    /\ LET done == cmds[Len(cmds)]
       IN  IF done.result = "exit0"
           THEN /\ success_files' = Append(success_files, files[idx])
                /\ UNCHANGED failed_files
           ELSE /\ failed_files' = Append(failed_files, files[idx])
                /\ UNCHANGED success_files
    /\ idx' = idx + 1
    /\ pc' = "Apply"
    /\ UNCHANGED << envVars, scanVars, line, rating, confirm, files, effectVars, prompts,
                    visited, outcome >>

\* line 74: the loop is over, the two lists are returned (lines 167-172)
ApplyReturn ==
    /\ pc = "Apply"
    /\ idx > Len(files)
    /\ pc' = "Report"
    /\ UNCHANGED << envVars, scanVars, line, rating, confirm, applyVars, effectVars,
                    prompts, visited, outcome >>

----------------------------------------------------------------------------
(* write_log: lines 76-87 *)

NoPath == PathOf(Unset, << >>)
HeaderLine(section) == [kind |-> "header", section |-> section, path |-> NoPath]
PathLine(section, path) == [kind |-> "path", section |-> section, path |-> path]

\* the write() calls of lines 79-85, in order
LogLines(succeeded, failed) ==
    << HeaderLine("success") >>
    \o [i \in 1..Len(succeeded) |-> PathLine("success", succeeded[i])]
    \o << HeaderLine("failed") >>
    \o [i \in 1..Len(failed) |-> PathLine("failed", failed[i])]

\* line 78: open(..., "w") creates or truncates the file
WriteLogOpen ==
    /\ pc = "Report"
    /\ log' = << >>
    /\ logpos' = 0
    /\ written' = written \cup {LogPath}
    /\ pc' = "WriteLog"
    /\ UNCHANGED << envVars, scanVars, line, rating, confirm, applyVars, cmds, prompts,
                    visited, outcome >>

\* line 78: open() raises OSError, which leaves main()
WriteLogOpenError ==
    /\ pc = "Report"
    /\ Raise
    /\ UNCHANGED << envVars, scanVars, line, rating, confirm, applyVars, effectVars,
                    prompts >>

\* lines 79-85: one write()
WriteLogLine ==
    /\ pc = "WriteLog"
    /\ logpos < Len(LogLines(success_files, failed_files))
    /\ log' = Append(log, LogLines(success_files, failed_files)[logpos + 1])
    /\ logpos' = logpos + 1
    /\ UNCHANGED << envVars, scanVars, pc, line, rating, confirm, applyVars, cmds,
                    written, prompts, visited, outcome >>

\* lines 86-87: the file is closed, write_log and main() return
WriteLogClose ==
    /\ pc = "WriteLog"
    /\ logpos = Len(LogLines(success_files, failed_files))
    /\ Terminate("completed")
    /\ UNCHANGED << envVars, scanVars, line, rating, confirm, applyVars, effectVars,
                    prompts >>

----------------------------------------------------------------------------
(* The top level: lines 177-185 *)

\* KeyboardInterrupt raised inside main(), also after its closing message was
\* printed and before it returned: no handler below line 180 catches it (it is
\* no Exception); a log file open in write_log is closed as it is
Interrupt ==
    /\ InMain \/ (pc = "ExitPrompt" /\ outcome \in MainMessages)
    /\ pc' = "InterruptHandler"
    /\ UNCHANGED << envVars, scanVars, line, rating, confirm, applyVars, effectVars,
                    prompts, visited, outcome >>

\* lines 180-181: the interruption message is printed
HandleInterrupt ==
    /\ pc = "InterruptHandler"
    /\ Terminate("interrupted")
    /\ UNCHANGED << envVars, scanVars, line, rating, confirm, applyVars, effectVars,
                    prompts >>

\* lines 182-183: the error report is printed
HandleError ==
    /\ pc = "ErrorHandler"
    /\ Terminate("error")
    /\ UNCHANGED << envVars, scanVars, line, rating, confirm, applyVars, effectVars,
                    prompts >>

\* KeyboardInterrupt raised inside a handler (line 181 or 183, before or after its
\* message is out) or at line 185 before the prompt is out: nothing catches it,
\* the process dies with a traceback and the exit prompt is never printed
InterruptOutsideTry ==
    /\ pc \in {"InterruptHandler", "ErrorHandler", "ExitPrompt"}
    /\ pc' = "Killed"
    /\ UNCHANGED << envVars, scanVars, line, rating, confirm, applyVars, effectVars,
                    prompts, visited, outcome >>

\* line 185: the prompt is printed and Enter is typed
ExitPrompt ==
    /\ pc = "ExitPrompt"
    /\ prompts' = Append(prompts, "exit")
    /\ pc' = "Done"
    /\ UNCHANGED << envVars, scanVars, line, rating, confirm, applyVars, effectVars,
                    visited, outcome >>

\* KeyboardInterrupt while input() of line 185 waits, outside the try statement:
\* the process dies with a traceback
InterruptAtExit ==
    /\ pc = "ExitPrompt"
    /\ prompts' = Append(prompts, "exit")
    /\ pc' = "Killed"
    /\ UNCHANGED << envVars, scanVars, line, rating, confirm, applyVars, effectVars,
                    visited, outcome >>

----------------------------------------------------------------------------
(* A whole run of the program *)

MainPool == { File(n_a_jpg), File(n_A_jpeg), File(n_a_arw) }

Listings(pool, n, sensitive) ==
    { l \in SeqsUpTo(pool, n) : ValidListing(l, sensitive) }

ProgramStart ==
    /\ pc = "ToolCheck"
    /\ jpeg_folder = Unset /\ jpeg_files = << >> /\ jpeg_basenames = << >>
    /\ raw_folder = Unset /\ matching_raw_files = << >>
    /\ line = << >> /\ rating = 0 /\ confirm = << >>
    /\ files = << >> /\ idx = 0 /\ success_files = << >> /\ failed_files = << >>
    /\ logpos = 0 /\ log = NoFile
    /\ prompts = << >> /\ cmds = << >> /\ written = {}
    /\ visited = << "ToolCheck" >> /\ outcome = "running"

\* the working directory is one of the folders the user may name (d1) or another
\* one (d3); d1 and d2 hold the same listings, so cwd = d2 adds no case
CwdChoices == {"d1", "d3"}

Init ==
    /\ toolState \in {"ok", "missing", "noexec"}
    /\ caseSensitive \in BOOLEAN
    /\ cwd \in CwdChoices
    /\ \E l1, l2 \in Listings(MainPool, MaxFiles, caseSensitive) :
        fs = [d \in Dirs |-> IF d = "d1" THEN l1 ELSE IF d = "d2" THEN l2 ELSE << >>]
    /\ ProgramStart

Next ==
    \/ ToolCheck
    \/ SourceFolderInput
    \/ SourceFolderCheck
    \/ SourceScan
    \/ TargetFolderInput
    \/ TargetFolderCheck
    \/ MatchScan
    \/ RatingInput
    \/ RatingParse
    \/ Confirm
    \/ ConfirmCheck
    \/ ApplyLaunch
    \/ ApplyRecord
    \/ ApplyReturn
    \/ WriteLogOpen
    \/ WriteLogOpenError
    \/ WriteLogLine
    \/ WriteLogClose
    \/ Interrupt
    \/ HandleInterrupt
    \/ HandleError
    \/ InterruptOutsideTry
    \/ ExitPrompt
    \/ InterruptAtExit

Spec == Init /\ [][Next]_vars

----------------------------------------------------------------------------
(* Runs that exercise the two scans on richer folders: d1 holds previews, d2 RAW files *)

JpegPool ==
    { File(n_a_jpg), File(n_a_jpeg), File(n_A_JPG), File(n_b_Jpg), File(n_a_txt),
      SubDir(n_b_jpg) }

RawPool ==
    { File(n_a_arw), File(n_a_ARW), File(n_a_RAW), File(n_A_raw), File(n_a_Arw),
      File(n_b_rAW), File(n_a_jpg) }

InitMatch ==
    /\ toolState = "ok"
    /\ caseSensitive \in BOOLEAN
    /\ cwd = "d3"
    /\ \E l1 \in Listings(JpegPool, MaxFiles, caseSensitive),
          l2 \in Listings(RawPool, MaxFiles, caseSensitive) :
        fs = [d \in Dirs |-> IF d = "d1" THEN l1 ELSE IF d = "d2" THEN l2 ELSE << >>]
    /\ ProgramStart

NextMatch ==
    \/ ToolCheck
    \/ SourceFolderInput
    \/ SourceFolderCheck
    \/ SourceScan
    \/ TargetFolderInput
    \/ TargetFolderCheck
    \/ MatchScan

SpecMatch == InitMatch /\ [][NextMatch]_vars

----------------------------------------------------------------------------
(* Runs in one environment, with every text up to the bounds typed at the rating *)
(* prompt and at the confirmation prompt                                         *)

RatingChars == {"0", "1", "2", "3", "4", "5", "6", "a", " ", "-"}
AnyRatingInputs == SeqsUpTo(RatingChars, MaxRatingLen) \cup { << "a", "b", "c" >> }

\* line 151, input(...)
RatingInputAny ==
    /\ pc = "RatingInput"
    /\ ReadLine("rating", AnyRatingInputs)
    /\ pc' = "RatingParse"
    /\ UNCHANGED << envVars, scanVars, rating, confirm, applyVars, effectVars, visited,
                    outcome >>

ConfirmChars == {"y", "Y", "n", " "}
AnyConfirmInputs == SeqsUpTo(ConfirmChars, MaxConfirmLen)

\* line 160, input(...)
ConfirmAny ==
    /\ pc = "Confirm"
    /\ ReadLine("confirm", AnyConfirmInputs)
    /\ pc' = "ConfirmCheck"
    /\ UNCHANGED << envVars, scanVars, rating, confirm, applyVars, effectVars, visited,
                    outcome >>

InitPrompts ==
    /\ toolState = "ok"
    /\ caseSensitive = TRUE
    /\ cwd = "d3"
    /\ fs = [d \in Dirs |-> IF d = "d1" THEN << File(n_a_jpg) >>
                            ELSE IF d = "d2" THEN << File(n_a_arw) >> ELSE << >>]
    /\ ProgramStart

NextPrompts ==
    \/ ToolCheck
    \/ SourceFolderInput
    \/ SourceFolderCheck
    \/ SourceScan
    \/ TargetFolderInput
    \/ TargetFolderCheck
    \/ MatchScan
    \/ RatingInputAny
    \/ RatingParse
    \/ ConfirmAny
    \/ ConfirmCheck
    \/ ApplyLaunch
    \/ ApplyRecord
    \/ ApplyReturn
    \/ WriteLogOpen
    \/ WriteLogOpenError
    \/ WriteLogLine
    \/ WriteLogClose
    \/ Interrupt
    \/ HandleInterrupt
    \/ HandleError
    \/ InterruptOutsideTry
    \/ ExitPrompt
    \/ InterruptAtExit

SpecPrompts == InitPrompts /\ [][NextPrompts]_vars

----------------------------------------------------------------------------
(* Direct calls of set_rating_with_exiftool(files, rating) *)

ApplyPaths == { PathOf("d2", n_a_arw), PathOf("d2", n_b_arw) }

InitApply ==
    /\ toolState = "ok" /\ caseSensitive = TRUE /\ cwd = "d3"
    /\ fs = [d \in Dirs |-> << >>]
    /\ pc = "Apply"
    /\ files \in SeqsUpTo(ApplyPaths, MaxApplyFiles)
    /\ rating \in 1..5
    /\ idx = 1 /\ success_files = << >> /\ failed_files = << >>
    /\ jpeg_folder = Unset /\ jpeg_files = << >> /\ jpeg_basenames = << >>
    /\ raw_folder = Unset /\ matching_raw_files = << >>
    /\ line = << >> /\ confirm = << >>
    /\ logpos = 0 /\ log = NoFile
    /\ prompts = << >> /\ cmds = << >> /\ written = {}
    /\ visited = << >> /\ outcome = "running"

NextApply ==
    \/ ApplyLaunch
    \/ ApplyRecord
    \/ ApplyReturn

SpecApply == InitApply /\ [][NextApply]_vars

----------------------------------------------------------------------------
(* Properties *)

\* the mutation of files has not begun
NothingMutated == cmds = << >> /\ written = {} /\ log = NoFile

\* C1 as stated: for every confirmation input other than the exact text "y" the
\* run does not go on to Apply, and no rating command runs on any file.
C1_ExactTokenOnly ==
    [][(pc = "ConfirmCheck" /\ line # << "y" >>) => (pc' # "Apply" /\ cmds' = << >>)]_vars

\* C1 amended: for every confirmation input that differs from "y" after surrounding
\* whitespace is stripped and letters are lower-cased, the run ends at Confirm
\* without entering Apply, and as long as no such "y" was given no rating command
\* has run, no file was written and no log exists.
C1_DeclineAborts ==
    /\ [][(pc = "ConfirmCheck" /\ Lower(Strip(line)) # << "y" >>)
            => (pc' \in {"ExitPrompt", "InterruptHandler"} /\ NothingMutated')]_vars
    /\ [](confirm # << "y" >> => (NothingMutated /\ Len(visited) < Len(States)))

C1_Witness ==
    /\ outcome = "cancelled"
    /\ confirm = << "n" >>
    /\ prompts = << "jpeg_folder", "raw_folder", "rating", "confirm" >>
    /\ NothingMutated

----------------------------------------------------------------------------

\* the files of the commands that have returned (the first idx - 1) and whose
\* result is (ok) or is not (~ok) exit status 0
FilesOfCmds(ok) ==
    LET sel == SelectSeq(SubSeq(cmds, 1, idx - 1), LAMBDA c : (c.result = "exit0") = ok)
    IN  [i \in 1..Len(sel) |-> sel[i].file]

\* C2: set_rating_with_exiftool runs the command once per file, in input order,
\* whatever the per-file results; a file is in succeeded iff its command exited 0
\* and in failed otherwise; when it returns every file was attempted, so
\* len(succeeded) + len(failed) = len(files), and an empty input gives two empty
\* lists and no command.
C2_OnePerFile ==
    /\ Len(cmds) = (IF pc = "ApplyRecord" THEN idx ELSE idx - 1)
    /\ Len(cmds) <= Len(files)
    /\ \A i \in 1..Len(cmds) : cmds[i].file = files[i] /\ cmds[i].rating = rating
    /\ success_files = FilesOfCmds(TRUE)
    /\ failed_files = FilesOfCmds(FALSE)
    /\ pc = "Report" =>
        /\ Len(cmds) = Len(files)
        /\ Len(success_files) + Len(failed_files) = Len(files)
        /\ files = << >> => (cmds = << >> /\ success_files = << >> /\ failed_files = << >>)

\* file 2 of 3 fails to launch, files 1 and 3 are still run and succeed
C2_Witness ==
    /\ pc = "Report"
    /\ Len(files) = 3
    /\ cmds[1].result = "exit0" /\ cmds[2].result = "launcherror" /\ cmds[3].result = "exit0"
    /\ success_files = << files[1], files[3] >>
    /\ failed_files = << files[2] >>

----------------------------------------------------------------------------

\* find_matching_raw_files has returned
MatchDone == Len(visited) >= 5 /\ pc # "MatchScan"

FoldedStem(name) == Lower(PathStem(name))

\* the positions of the RAW folder's entries that some pattern of the code picks up
\* and whose stem equals the basename up to case
CandidatesOf(basename) ==
    { i \in 1..Len(fs[raw_folder]) :
        /\ \E k \in 1..Len(raw_extensions) : GlobMatch(fs[raw_folder][i].name, raw_extensions[k])
        /\ FoldedStem(fs[raw_folder][i].name) = Lower(basename) }

\* each requested basename contributes at most one match: the matches of a stem
\* are no more than the requests for it
AtMostOnePerBasename ==
    \A j \in 1..Len(jpeg_basenames) :
        Cardinality({ k \in 1..Len(matching_raw_files) :
                        FoldedStem(matching_raw_files[k].name) = Lower(jpeg_basenames[j]) })
        <= Cardinality({ i \in 1..Len(jpeg_basenames) :
                        Lower(jpeg_basenames[i]) = Lower(jpeg_basenames[j]) })

\* the first pattern of raw_extensions that picks a name up
PatternRank(name) ==
    CHOOSE k \in 1..Len(raw_extensions) :
        /\ GlobMatch(name, raw_extensions[k])
        /\ \A m \in 1..(k - 1) : ~GlobMatch(name, raw_extensions[m])

\* C3 as stated: a basename yields at most one match, and the file selected is the
\* first candidate in directory-enumeration order of the RAW folder.
C3_FirstInDirectoryOrder ==
    MatchDone =>
        /\ AtMostOnePerBasename
        /\ \A k \in 1..Len(matching_raw_files) :
            LET cands == CandidatesOf(PathStem(matching_raw_files[k].name))
            IN  \E i \in cands :
                  /\ fs[raw_folder][i].name = matching_raw_files[k].name
                  /\ \A j \in cands : i <= j

\* C3 amended: a basename yields at most one match, and the file selected is the
\* first candidate in the order the code collects candidates: by the first of the
\* patterns *.arw, *.raw, *.ARW, *.RAW that matches the file, and within one
\* pattern by directory-enumeration order.
C3_FirstInPatternOrder ==
    MatchDone =>
        /\ AtMostOnePerBasename
        /\ \A k \in 1..Len(matching_raw_files) :
            LET cands == CandidatesOf(PathStem(matching_raw_files[k].name))
                rank(i) == PatternRank(fs[raw_folder][i].name)
            IN  /\ matching_raw_files[k].dir = raw_folder
                /\ \E i \in cands :
                      /\ fs[raw_folder][i].name = matching_raw_files[k].name
                      /\ \A j \in cands :
                            rank(i) < rank(j) \/ (rank(i) = rank(j) /\ i <= j)

\* a.RAW is enumerated before a.ARW, and a.ARW is the one match
C3_Witness ==
    /\ MatchDone
    /\ raw_folder = "d2"
    /\ fs["d2"] = << File(n_a_RAW), File(n_a_ARW) >>
    /\ jpeg_basenames = << << "a" >> >>
    /\ matching_raw_files = << PathOf("d2", n_a_ARW) >>

\* C4: every file of the RAW folder whose extension is .arw or .raw in any mix of
\* upper and lower case, and whose stem equals a requested basename up to case,
\* gives that basename a match.
C4_AnyCaseExtension ==
    MatchDone =>
        \A i \in 1..Len(fs[raw_folder]), j \in 1..Len(jpeg_basenames) :
            ( /\ fs[raw_folder][i].isfile
              /\ \/ EndsWith(Lower(fs[raw_folder][i].name), << ".", "a", "r", "w" >>)
                 \/ EndsWith(Lower(fs[raw_folder][i].name), << ".", "r", "a", "w" >>)
              /\ FoldedStem(fs[raw_folder][i].name) = Lower(jpeg_basenames[j]) )
            => \E k \in 1..Len(matching_raw_files) :
                  FoldedStem(matching_raw_files[k].name) = Lower(jpeg_basenames[j])

----------------------------------------------------------------------------

\* what the claim says the rating is for a typed text: the integer it parses to
\* when that is one of 1..5, and 4 otherwise
RatingFor(typed) ==
    LET parsed == ParseInt(typed)
    IN  IF parsed.ok /\ parsed.value \in 1..5 THEN parsed.value ELSE 4

\* C5: the rating main() hands to set_rating_with_exiftool is always an integer in
\* 1..5: a text that parses to an integer 1..5 passes through unchanged, every
\* other text ("0", "6", "abc", the empty text, ...) becomes 4, and the run goes on
\* to Confirm in either case.
C5_RatingCoerced ==
    /\ pc = "Confirm" =>
        /\ rating = RatingFor(line)
        /\ rating \in 1..5
        /\ line \in { << >>, << "0" >>, << "6" >>, << "a", "b", "c" >> } => rating = 4
        /\ \A d \in {"1", "2", "3", "4", "5"} : line = << d >> => rating = DigitVal(d)
    /\ \A i \in 1..Len(cmds) : cmds[i].rating \in 1..5 /\ cmds[i].rating = rating

\* "abc" was typed, the run is at Confirm with rating 4
C5_Witness ==
    /\ pc = "Confirm"
    /\ line = << "a", "b", "c" >>
    /\ rating = 4
    /\ outcome = "running"

----------------------------------------------------------------------------

\* no entry of the folder is a regular file with a JPEG extension (any case)
NoJpegIn(folder) ==
    \A i \in 1..Len(fs[folder]) :
        ~( /\ fs[folder][i].isfile
           /\ \/ EndsWith(Lower(fs[folder][i].name), << ".", "j", "p", "g" >>)
              \/ EndsWith(Lower(fs[folder][i].name), << ".", "j", "p", "e", "g" >>) )

\* the orchestrator state a position of the program belongs to
StateOf(position) ==
    CASE position = "SourceFolderCheck" -> "SourceFolderInput"
      [] position = "TargetFolderCheck" -> "TargetFolderInput"
      [] position = "RatingParse"  -> "RatingInput"
      [] position = "ConfirmCheck" -> "Confirm"
      [] position \in {"ApplyRecord", "Report", "WriteLog"} -> "Apply"
      [] OTHER -> position

\* C6: the states ToolCheck .. Apply are entered only in that order, each at most
\* once; after a missing tool, an invalid reject folder, zero JPEG files, an
\* invalid RAW folder, zero matches or a declined confirmation no later state is
\* entered, so no later prompt is issued, no rating command runs and no log is
\* written; Apply is reached only when every earlier state succeeded.
C6_SequentialStates ==
    /\ Len(visited) \in 1..Len(States)
    /\ \A i \in 1..Len(visited) : visited[i] = States[i]
    /\ InMain => StateOf(pc) = visited[Len(visited)]
    /\ toolState # "ok" => Len(visited) <= 1
    /\ jpeg_folder \notin Dirs => Len(visited) <= 2
    /\ (jpeg_folder \in Dirs /\ NoJpegIn(jpeg_folder)) => Len(visited) <= 3
    /\ raw_folder \notin Dirs => Len(visited) <= 4
    /\ (matching_raw_files = << >>) => Len(visited) <= 5
    /\ confirm # << "y" >> => Len(visited) <= 7
    /\ \A i \in 1..Len(prompts) :
        /\ prompts[i] = "jpeg_folder" => Len(visited) >= 2
        /\ prompts[i] = "raw_folder" => Len(visited) >= 4
        /\ prompts[i] = "rating" => Len(visited) >= 6
        /\ prompts[i] = "confirm" => Len(visited) >= 7
    /\ (cmds # << >> \/ log # NoFile \/ written # {}) => Len(visited) = Len(States)
    /\ outcome \in {"guidance", "badJpegFolder", "noJpeg", "badRawFolder", "noMatch",
                    "cancelled"} => NothingMutated

\* a run that ended at MatchScan for want of matches
C6_Witness ==
    /\ pc = "Done"
    /\ outcome = "noMatch"
    /\ visited = SubSeq(States, 1, 5)
    /\ prompts = << "jpeg_folder", "raw_folder", "exit" >>
    /\ NothingMutated

----------------------------------------------------------------------------

\* C7: a run ended by a user interruption leaves no partially written log: the
\* log file is absent or holds every line of the report.
C7_NoPartialLog ==
    outcome = "interrupted" =>
        (log = NoFile \/ log = LogLines(success_files, failed_files))

\* C8: when the tagging command cannot be launched, for whatever reason, the run
\* ends at ToolCheck with the guidance message (not the unexpected-error report),
\* no folder prompt is issued and no file is mutated.
C8_GuidanceOnAnyLaunchFailure ==
    (toolState # "ok" /\ pc \in {"ExitPrompt", "Done"}) =>
        /\ outcome \in {"guidance", "interrupted"}
        /\ \A i \in 1..Len(prompts) : prompts[i] = "exit"
        /\ NothingMutated

----------------------------------------------------------------------------

\* C9 as stated: whatever the reject folder, the RAW folder and the working
\* directory, every file the run writes is inside the RAW folder and none is
\* inside the reject folder.
C9_OnlyRawFolderWritten ==
    \A p \in written : p.dir = raw_folder /\ p.dir # jpeg_folder

\* C9 amended: the run writes only matched entries of the RAW folder (through the
\* rating command) and the file rating_log.txt of the working directory; so it
\* writes nothing into the reject folder when the reject folder is neither the
\* working directory nor the RAW folder.
C9_WritesRawAndLogOnly ==
    /\ \A p \in written :
        \/ /\ p.dir = raw_folder
           /\ \E i \in 1..Len(fs[raw_folder]) : fs[raw_folder][i].name = p.name
           /\ \E k \in 1..Len(matching_raw_files) : matching_raw_files[k] = p
        \/ p = [dir |-> cwd, name |-> LogName]
    /\ (log # NoFile) = ([dir |-> cwd, name |-> LogName] \in written)
    /\ jpeg_folder \notin {cwd, raw_folder} => \A p \in written : p.dir # jpeg_folder

\* a completed run that rated a RAW file and wrote its log, both outside the
\* reject folder
C9_Witness ==
    /\ outcome = "completed"
    /\ jpeg_folder \notin {cwd, raw_folder}
    /\ \E p \in written : p.dir = raw_folder
    /\ [dir |-> cwd, name |-> LogName] \in written

----------------------------------------------------------------------------

\* C10: no RAW file occurs twice in the match result, so no RAW file is the target
\* of two rating commands of one run nor listed twice in the log.
C10_MatchesAreDistinct ==
    /\ NoDup(matching_raw_files)
    /\ \A i, j \in 1..Len(cmds) : i # j => cmds[i].file # cmds[j].file
    /\ log # NoFile =>
        \A i, j \in 1..Len(log) :
            (i # j /\ log[i].kind = "path" /\ log[j].kind = "path")
                => log[i].path # log[j].path

====
